---- MODULE Spec2Model ----
(***************************************************************************)
(* VibeKeeper: the JSON API (dev login, bearer authentication, occasion    *)
(* create/list), the server-rendered app (add_occasion, occasions) and the *)
(* LLM reply parser (extract_occasion_data, _normalise_date).              *)
(*                                                                         *)
(* The specifications share the variables:                                 *)
(*   SpecLogin    concurrent POST /login/test requests                     *)
(*   SpecAuth     GET /me under every kind of bearer credential, and time  *)
(*   SpecApi      the occasion endpoints behind get_current_user           *)
(*   SpecWeb      the server-rendered app of mini-mvp/main.py              *)
(*   SpecExtract  extract_occasion_data applied to one completion outcome  *)
(*   SpecNormalise   _normalise_date applied to one date string            *)
(*   SpecExtractApi  POST /occasions/extract beside POST /occasions/       *)
(*   SpecSessions    the database sessions of concurrent requests          *)
(*   SpecRegex       the pattern-matching extractor applied to one text    *)
(***************************************************************************)
EXTENDS Integers, Sequences, FiniteSets, TLC

VARIABLES
    users,        \* table "users": set of rows [id, email, full_name, provider, created_at]
    occasions,    \* table "occasions" of the API: sequence of rows, row i has id i
    now,          \* wall clock, in hours
    login,        \* per client: the dev_login coroutine's position and locals
    req,          \* the last HTTP request the API handled
    resp,         \* the last HTTP response of the API
    webOccasions, \* table "occasions" of the server-rendered app: sequence of rows
    webResp,      \* the last response of the server-rendered app
    exIn,         \* extract_occasion_data: the outcome of the completion call
    exOut,        \* extract_occasion_data: what the call did with it
    sessions,     \* every database session opened so far: sequence of records
    handler       \* per client: the position of the request handler it runs

vars == <<users, occasions, now, login, req, resp, webOccasions, webResp, exIn, exOut,
          sessions, handler>>

apiVars == <<users, occasions, now, login, req, resp>>
webVars == <<webOccasions, webResp>>
exVars == <<exIn, exOut>>
dbVars == <<sessions, handler>>

(***************************************************************************)
(* Values                                                                  *)
(***************************************************************************)

\* Python's None, where the other values of the field are strings.
None == "<None>"

\* A JSON field that the request body does not carry.
Absent == "<absent>"

\* config.py: jwt_expiration_hours, jwt_algorithm and the signing key.
ACCESS_TOKEN_EXPIRE_HOURS == 24
ALGORITHM == "HS256"
jwt_secret_key == "app-key"

\* The clock stops here.
MaxNow == 48

\* The clock advances by a day.
TickHours == ACCESS_TOKEN_EXPIRE_HOURS

\* Email addresses a client may send; EmailStr accepts the first two.
WellFormedEmails == {"newuser@example.com", "test@example.com"}
MalformedEmail == "not-an-email"
Names == {"New User", "Test User"}
ProvidersSent == {Absent, "google"}

\* pydantic's EmailStr validation.
IsEmailStr(e) == e \in WellFormedEmails

NoUser == [id |-> 0, email |-> None, full_name |-> None, provider |-> None, created_at |-> 0]

NoResp == [for |-> "none", status |-> 0]

Clients == {"c1", "c2"}

NoBody == [email |-> None, full_name |-> None, provider |-> None]

\* A client with no request in flight. body is the JSON the client sent,
\* user_in and user are get_or_create_user's locals.
Idle == [pc |-> "idle", body |-> NoBody, user_in |-> NoBody, user |-> NoUser]

(***************************************************************************)
(* schemas.py                                                              *)
(***************************************************************************)

\* The bodies POST /login/test may receive.
LoginBodies ==
    [email : WellFormedEmails \cup {MalformedEmail}, full_name : Names, provider : ProvidersSent]

\* UserCreate(**body): the email must validate; provider defaults to "dev".
UserCreateValid(body) == IsEmailStr(body.email)

UserCreate(body) ==
    [email |-> body.email,
     full_name |-> body.full_name,
     provider |-> IF body.provider = Absent THEN "dev" ELSE body.provider]

\* UserResponse.model_validate(user): id, email, full_name, created_at.
UserResponse(u) ==
    [id |-> u.id, email |-> u.email, full_name |-> u.full_name, created_at |-> u.created_at]

(***************************************************************************)
(* auth.py: tokens                                                         *)
(***************************************************************************)

\* A claim value of a token: an integer, a string holding a decimal number,
\* another string, or no such claim.
IntClaim(n) == [t |-> "int", n |-> n, s |-> ""]
NumStrClaim(n) == [t |-> "str", n |-> n, s |-> "digits"]
StrClaim(s) == [t |-> "str", n |-> 0, s |-> s]
NoClaim == [t |-> "none", n |-> 0, s |-> ""]

\* jose.jwt.encode: the claims, signed with the key under the algorithm.
JwtEncode(claims, key, alg) == [wellformed |-> TRUE, sig |-> key, alg |-> alg, claims |-> claims]

\* create_access_token(data) at time t, with the default lifetime.
create_access_token(data, t) ==
    JwtEncode([sub |-> data.sub, email |-> data.email,
               exp |-> IntClaim(t + ACCESS_TOKEN_EXPIRE_HOURS)],
              jwt_secret_key, ALGORITHM)

(***************************************************************************)
(* auth.py: get_or_create_user, api/auth.py: dev_login                     *)
(***************************************************************************)

\* select(User).where(User.email == e) ... scalar_one_or_none()
UserByEmail(tbl, e) ==
    IF \E u \in tbl : u.email = e THEN CHOOSE u \in tbl : u.email = e ELSE NoUser

\* Variant: the row takes the email for the name.
NewUserRowNamedByEmail(tbl, user_in, t) ==
    [id |-> Cardinality(tbl) + 1,
     email |-> user_in.email,
     full_name |-> user_in.email,
     provider |-> user_in.provider,
     created_at |-> t]

\* The row an INSERT of user_in makes: the next rowid, created_at by default.
NewUserRow(tbl, user_in, t) ==
    [id |-> Cardinality(tbl) + 1,
     email |-> user_in.email,
     full_name |-> user_in.full_name,
     provider |-> user_in.provider,
     created_at |-> t]

\* users.email is declared unique: the INSERT's commit fails when the email is stored.
CommitUserOk(tbl, row) == \A u \in tbl : u.email # row.email

\* dev_login's answer for the user get_or_create_user returned.
LoginOk(c, u, t) ==
    [for |-> "login", client |-> c, status |-> 200,
     access_token |-> create_access_token([sub |-> IntClaim(u.id), email |-> StrClaim(u.email)], t),
     token_type |-> "bearer",
     user |-> UserResponse(u)]

\* FastAPI answers 422 when the body does not validate as UserCreate.
LoginUnprocessable(c) == [for |-> "login", client |-> c, status |-> 422]

\* An exception that leaves the handler: FastAPI answers 500.
LoginServerError(c) == [for |-> "login", client |-> c, status |-> 500]

\* POST /login/test arrives: the body is validated, then get_or_create_user
\* runs up to its first await (the SELECT by email).
DevLoginSelect(c, body) ==
    /\ login[c].pc = "idle"
    /\ IF UserCreateValid(body)
       THEN /\ login' = [login EXCEPT ![c] =
                            [pc |-> "selected", body |-> body, user_in |-> UserCreate(body),
                             user |-> UserByEmail(users, body.email)]]
            /\ resp' = resp
       ELSE /\ login' = login
            /\ resp' = LoginUnprocessable(c)
    /\ UNCHANGED <<users, occasions, now, req>>

\* The answer r, kept together with the body of the request it answers.
AnswerTo(body, r) == r @@ [request |-> body]

\* Variant: a user that is found takes the name and provider of the request.
DevLoginFinishUpdating(c) ==
    /\ login[c].pc = "selected"
    /\ LET found == login[c].user
           row == NewUserRow(users, login[c].user_in, now)
           updated == [found EXCEPT !.full_name = login[c].user_in.full_name,
                                    !.provider = login[c].user_in.provider]
       IN  IF found # NoUser
           THEN /\ users' = (users \ {found}) \cup {updated}
                /\ resp' = AnswerTo(login[c].body, LoginOk(c, updated, now))
           ELSE IF CommitUserOk(users, row)
                THEN /\ users' = users \cup {row}
                     /\ resp' = AnswerTo(login[c].body, LoginOk(c, row, now))
                ELSE /\ users' = users
                     /\ resp' = AnswerTo(login[c].body, LoginServerError(c))
    /\ login' = [login EXCEPT ![c] = Idle]
    /\ UNCHANGED <<occasions, now, req>>

\* The rest of the handler: when the SELECT found nobody, the INSERT and its
\* commit; then the token and the response.
DevLoginFinish(c) ==
    /\ login[c].pc = "selected"
    /\ LET found == login[c].user
           row == NewUserRow(users, login[c].user_in, now)
       IN  IF found # NoUser
           THEN /\ users' = users
                /\ resp' = AnswerTo(login[c].body, LoginOk(c, found, now))
           ELSE IF CommitUserOk(users, row)
                THEN /\ users' = users \cup {row}
                     /\ resp' = AnswerTo(login[c].body, LoginOk(c, row, now))
                ELSE /\ users' = users
                     /\ resp' = AnswerTo(login[c].body, LoginServerError(c))
    /\ login' = [login EXCEPT ![c] = Idle]
    /\ UNCHANGED <<occasions, now, req>>

\* Time passes.
Tick ==
    /\ now + TickHours <= MaxNow
    /\ now' = now + TickHours
    /\ UNCHANGED <<users, occasions, login, req, resp>>

(***************************************************************************)
(* auth.py: verify_token, get_current_user                                 *)
(***************************************************************************)

\* The token of a request that carries none (its fields are never read).
NoToken == [wellformed |-> FALSE, sig |-> "", alg |-> "",
            claims |-> [sub |-> NoClaim, email |-> NoClaim, exp |-> NoClaim]]

\* HTTPBearer(auto_error=False): None without an Authorization: Bearer header.
NoCreds == [present |-> FALSE, credentials |-> NoToken]
Bearer(tok) == [present |-> TRUE, credentials |-> tok]

\* A bearer string that is no JWT at all.
MalformedToken == [NoToken EXCEPT !.sig = "garbage"]

\* jose.jwt.decode(token, key, algorithms) at time t: the token must parse, its
\* algorithm be allowed and its signature verify; then the registered claims
\* are validated: exp must be an integer not in the past, sub must be a string.
\* Every failure is a JWTError.
JwtDecodeOk(tok, key, algs, t) ==
    /\ tok.wellformed
    /\ tok.alg \in algs
    /\ tok.sig = key
    /\ tok.claims.exp.t # "none" =>
           /\ tok.claims.exp.t = "int" \/ tok.claims.exp.s = "digits"
           /\ ~(tok.claims.exp.n < t)
    /\ tok.claims.sub.t # "none" => tok.claims.sub.t = "str"

\* TokenData(user_id=payload.get("sub"), email=payload.get("email")):
\* user_id: int takes an integer or a string of digits, email: EmailStr takes
\* a well-formed address; anything else, None included, is a ValidationError.
TokenDataValid(claims) ==
    /\ claims.sub.t = "int" \/ (claims.sub.t = "str" /\ claims.sub.s = "digits")
    /\ claims.email.t = "str" /\ IsEmailStr(claims.email.s)

\* select(User).where(User.id == i) ... scalar_one_or_none()
UserById(tbl, i) ==
    IF \E u \in tbl : u.id = i THEN CHOOSE u \in tbl : u.id = i ELSE NoUser

Raise(status, detail) == [ok |-> FALSE, status |-> status, detail |-> detail, user |-> NoUser]

\* verify_token: a JWTError becomes 401 "Invalid token"; the ValidationError of
\* TokenData is no JWTError and leaves the handler (FastAPI answers 500).
verify_token(tok, t) ==
    IF ~JwtDecodeOk(tok, jwt_secret_key, {ALGORITHM}, t)
    THEN Raise(401, "Invalid token")
    ELSE IF ~TokenDataValid(tok.claims)
         THEN Raise(500, "Internal Server Error")
         ELSE [ok |-> TRUE, status |-> 0, detail |-> "", user |-> [NoUser EXCEPT !.id = tok.claims.sub.n]]

\* Variant: absent credentials go through verify_token like any other.
get_current_user_unguarded(creds, tbl, t) ==
    LET token_data == verify_token(creds.credentials, t)
    IN  IF ~token_data.ok
        THEN token_data
        ELSE IF UserById(tbl, token_data.user.id) = NoUser
             THEN Raise(401, "User not found")
             ELSE [ok |-> TRUE, status |-> 0, detail |-> "",
                   user |-> UserById(tbl, token_data.user.id)]

\* get_current_user(creds, db) at time t: the user, or the exception raised.
get_current_user(creds, tbl, t) ==
    IF ~creds.present
    THEN Raise(401, "Not authenticated")
    ELSE LET token_data == verify_token(creds.credentials, t)
         IN  IF ~token_data.ok
             THEN token_data
             ELSE IF UserById(tbl, token_data.user.id) = NoUser
                  THEN Raise(401, "User not found")
                  ELSE [ok |-> TRUE, status |-> 0, detail |-> "",
                        user |-> UserById(tbl, token_data.user.id)]

(***************************************************************************)
(* Dates                                                                   *)
(***************************************************************************)

IsLeap(y) == (y % 4 = 0 /\ y % 100 # 0) \/ y % 400 = 0

DaysInMonth(y, m) ==
    IF m = 2 THEN (IF IsLeap(y) THEN 29 ELSE 28)
    ELSE IF m \in {4, 6, 9, 11} THEN 30 ELSE 31

\* A real calendar date (datetime.date accepts years 1..9999).
ValidDate(d) ==
    /\ d.y \in 1..9999
    /\ d.m \in 1..12
    /\ d.d \in 1..DaysInMonth(d.y, d.m)

NextDay(d) ==
    IF d.d < DaysInMonth(d.y, d.m) THEN [d EXCEPT !.d = d.d + 1]
    ELSE IF d.m < 12 THEN [y |-> d.y, m |-> d.m + 1, d |-> 1]
    ELSE [y |-> d.y + 1, m |-> 1, d |-> 1]

RECURSIVE AddDays(_, _)
AddDays(d, n) == IF n = 0 THEN d ELSE AddDays(NextDay(d), n - 1)

\* d1 <= d2
DateLeq(d1, d2) ==
    \/ d1.y < d2.y
    \/ d1.y = d2.y /\ d1.m < d2.m
    \/ d1.y = d2.y /\ d1.m = d2.m /\ d1.d <= d2.d

\* The clock reads 0 at midnight of this day.
EpochDate == [y |-> 2024, m |-> 12, d |-> 24]

\* date.today() when the clock reads t hours.
Today(t) == AddDays(EpochDate, t \div 24)

(***************************************************************************)
(* Strings as sequences of characters: LIKE and substring                  *)
(***************************************************************************)

LowerChar(c) ==
    CASE c = "J" -> "j"
      [] c = "O" -> "o"
      [] c = "A" -> "a"
      [] c = "L" -> "l"
      [] c = "N" -> "n"
      [] c = "U" -> "u"
      [] OTHER -> c

Lower(s) == [i \in 1..Len(s) |-> LowerChar(s[i])]

\* SQL's  s LIKE p : % matches any run of characters, _ any one character.
RECURSIVE Like(_, _)
Like(s, p) ==
    IF p = <<>> THEN s = <<>>
    ELSE IF Head(p) = "%" THEN Like(s, Tail(p)) \/ (s # <<>> /\ Like(Tail(s), p))
    ELSE /\ s # <<>>
         /\ Head(p) = "_" \/ Head(p) = Head(s)
         /\ Like(Tail(s), Tail(p))

\* column.ilike(pattern):  lower(column) LIKE lower(pattern)
ILike(s, p) == Like(Lower(s), Lower(p))

\* p occurs in s as a substring, letter case ignored.
ContainsIgnoreCase(s, p) ==
    \E i \in 1..(Len(s) + 1) :
        /\ i + Len(p) - 1 <= Len(s)
        /\ SubSeq(Lower(s), i, i + Len(p) - 1) = Lower(p)

(***************************************************************************)
(* schemas.py: occasion payloads and filters; models.py: Occasion          *)
(***************************************************************************)

\* The occasions table holds at most this many rows.
MaxOccasions == 2

\* OccasionStatus
OccasionStatuses == {"active", "completed", "dismissed"}
ACTIVE == "active"

\* Bodies POST /occasions/ may receive. owner_id is no field of
\* OccasionExtracted: a body that carries one has it ignored.
Payloads ==
    { [person |-> <<"J", "o">>, occasion_type |-> "Anniversary",
       occasion_date |-> [y |-> 2024, m |-> 12, d |-> 25],
       person_relationship |-> "family", notes |-> "Buy a gift",
       confidence_score |-> 90, raw_input |-> "Jo's anniversary is on Dec 25, 2024.",
       owner_id |-> 0],
      [person |-> <<"A", "l">>, occasion_type |-> "birthday",
       occasion_date |-> [y |-> 2024, m |-> 12, d |-> 24],
       person_relationship |-> None, notes |-> None,
       confidence_score |-> 100, raw_input |-> "Al birthday 12/24",
       owner_id |-> 1],
      [person |-> <<>>, occasion_type |-> "birthday",
       occasion_date |-> [y |-> 2024, m |-> 12, d |-> 25],
       person_relationship |-> None, notes |-> None,
       confidence_score |-> 50, raw_input |-> "birthday",
       owner_id |-> 0],
      [person |-> <<"J", "o">>, occasion_type |-> "birthday",
       occasion_date |-> [y |-> 2025, m |-> 2, d |-> 30],
       person_relationship |-> None, notes |-> None,
       confidence_score |-> 150, raw_input |-> "Jo birthday 30 Feb",
       owner_id |-> 2] }

NoPayload ==
    [person |-> <<>>, occasion_type |-> "", occasion_date |-> [y |-> 0, m |-> 0, d |-> 0],
     person_relationship |-> None, notes |-> None, confidence_score |-> 0,
     raw_input |-> "", owner_id |-> 0]

\* OccasionExtracted(**body): person and occasion_type of length >= 1, a real
\* date, 0.0 <= confidence_score <= 1.0 (held here in hundredths).
OccasionExtractedValid(p) ==
    /\ Len(p.person) >= 1
    /\ p.occasion_type # ""
    /\ ValidDate(p.occasion_date)
    /\ p.confidence_score >= 0 /\ p.confidence_score <= 100

\* A query parameter: given or not, and its text.
NotGiven == [given |-> FALSE, s |-> <<>>]
Given(s) == [given |-> TRUE, s |-> s]

NoFilters ==
    [person |-> NotGiven, occasion_type |-> Absent, status |-> Absent, upcoming_only |-> FALSE]

PersonFilters ==
    {NotGiven, Given(<<>>), Given(<<"j">>), Given(<<"J", "o">>), Given(<<"x">>),
     Given(<<"_">>), Given(<<"%">>), Given(<<"j", "_">>)}

\* The query strings GET /occasions/ may receive.
Filters ==
    [person : PersonFilters, occasion_type : {Absent}, status : {Absent}, upcoming_only : {FALSE}]
    \cup
    [person : {NotGiven}, occasion_type : {Absent, "", "birthday"},
     status : {Absent}, upcoming_only : BOOLEAN]
    \cup
    [person : {NotGiven}, occasion_type : {Absent},
     status : {"active", "completed", "archived", ""}, upcoming_only : {FALSE}]
    \cup
    [person : {Given(<<"o">>)}, occasion_type : {"birthday", "Anniversary"},
     status : {"active"}, upcoming_only : BOOLEAN]

\* OccasionFilter(**query): status must be an OccasionStatus when given.
OccasionFilterValid(f) == f.status = Absent \/ f.status \in OccasionStatuses

\* Occasion.days_until() >= 0: the date is today or later.
is_upcoming(o, t) == DateLeq(Today(t), o.occasion_date)

\* Variant: the owner is the one the payload names.
NewOccasionRowOwnedByPayload(tbl, current_user, occasion_in) ==
    [id |-> Len(tbl) + 1,
     owner_id |-> occasion_in.owner_id,
     person |-> occasion_in.person,
     occasion_type |-> occasion_in.occasion_type,
     occasion_date |-> occasion_in.occasion_date,
     person_relationship |-> occasion_in.person_relationship,
     notes |-> occasion_in.notes,
     confidence_score |-> occasion_in.confidence_score,
     status |-> ACTIVE,
     raw_input |-> occasion_in.raw_input]

\* Occasion(owner_id=current_user.id, ...) as stored: the next rowid, the
\* default status. (The created_at/updated_at columns are not modelled.)
NewOccasionRow(tbl, current_user, occasion_in) ==
    [id |-> Len(tbl) + 1,
     owner_id |-> current_user.id,
     person |-> occasion_in.person,
     occasion_type |-> occasion_in.occasion_type,
     occasion_date |-> occasion_in.occasion_date,
     person_relationship |-> occasion_in.person_relationship,
     notes |-> occasion_in.notes,
     confidence_score |-> occasion_in.confidence_score,
     status |-> ACTIVE,
     raw_input |-> occasion_in.raw_input]

\* if filters.person: stmt.where(Occasion.person.ilike(f"%{filters.person}%"))
PersonMatches(o, f) ==
    (f.person.given /\ f.person.s # <<>>) => ILike(o.person, <<"%">> \o f.person.s \o <<"%">>)

\* Variant: the WHERE clause without the owner.
SelectedByAnyOwner(o, current_user, f) ==
    /\ PersonMatches(o, f)
    /\ (f.occasion_type # Absent /\ f.occasion_type # "") => o.occasion_type = f.occasion_type
    /\ f.status # Absent => o.status = f.status

\* The WHERE clause list_occasions builds.
SelectedBy(o, current_user, f) ==
    /\ o.owner_id = current_user.id
    /\ PersonMatches(o, f)
    /\ (f.occasion_type # Absent /\ f.occasion_type # "") => o.occasion_type = f.occasion_type
    /\ f.status # Absent => o.status = f.status

\* result.scalars().all(), then the upcoming_only pass: the rows kept, in table order.
RECURSIVE SelectRows(_, _, _, _)
SelectRows(tbl, current_user, f, t) ==
    IF tbl = <<>> THEN <<>>
    ELSE LET o == Head(tbl)
             rest == SelectRows(Tail(tbl), current_user, f, t)
         IN  IF SelectedBy(o, current_user, f) /\ (f.upcoming_only => is_upcoming(o, t))
             THEN <<o>> \o rest
             ELSE rest

(***************************************************************************)
(* api/auth.py: read_me; api/occasions.py: create_occasion, list_occasions *)
(***************************************************************************)

NoReq == [endpoint |-> "none", creds |-> NoCreds, payload |-> NoPayload, filters |-> NoFilters]

\* The answer to an exception raised while the dependencies are resolved.
ErrorResp(endpoint, e, t) ==
    [for |-> endpoint, at |-> t, status |-> e.status, detail |-> e.detail]

\* FastAPI's answer to a body or query that does not validate.
Unprocessable(endpoint, t) ==
    [for |-> endpoint, at |-> t, status |-> 422, detail |-> "validation error"]

\* GET /me
ReadMe(r) ==
    /\ r.endpoint = "me"
    /\ LET current_user == get_current_user(r.creds, users, now)
       IN  resp' = IF ~current_user.ok
                   THEN ErrorResp("me", current_user, now)
                   ELSE [for |-> "me", at |-> now, status |-> 200,
                         user |-> UserResponse(current_user.user)]
    /\ req' = r
    /\ UNCHANGED <<users, occasions, now, login>>

\* POST /occasions/ : the dependencies first (get_current_user may raise),
\* then the body's validation, then the handler.
CreateOccasion(r) ==
    /\ r.endpoint = "create"
    /\ LET current_user == get_current_user(r.creds, users, now)
           occ == NewOccasionRow(occasions, current_user.user, r.payload)
       IN  IF ~current_user.ok
           THEN /\ resp' = ErrorResp("create", current_user, now)
                /\ occasions' = occasions
           ELSE IF ~OccasionExtractedValid(r.payload)
                THEN /\ resp' = Unprocessable("create", now)
                     /\ occasions' = occasions
                ELSE /\ Len(occasions) < MaxOccasions
                     /\ occasions' = Append(occasions, occ)
                     /\ resp' = [for |-> "create", at |-> now, status |-> 201, body |-> occ]
    /\ req' = r
    /\ UNCHANGED <<users, now, login>>

\* GET /occasions/
ListOccasions(r) ==
    /\ r.endpoint = "list"
    /\ LET current_user == get_current_user(r.creds, users, now)
       IN  resp' = IF ~current_user.ok
                   THEN ErrorResp("list", current_user, now)
                   ELSE IF ~OccasionFilterValid(r.filters)
                        THEN Unprocessable("list", now)
                        ELSE [for |-> "list", at |-> now, status |-> 200,
                              items |-> SelectRows(occasions, current_user.user, r.filters, now)]
    /\ req' = r
    /\ UNCHANGED <<users, occasions, now, login>>

(***************************************************************************)
(* The requests the specifications send                                    *)
(***************************************************************************)

\* The users table after conftest's test_user fixture and one dev login.
SeedUsers ==
    { [id |-> 1, email |-> "test@example.com", full_name |-> "Test User",
       provider |-> "test", created_at |-> 0],
      [id |-> 2, email |-> "newuser@example.com", full_name |-> "New User",
       provider |-> "dev", created_at |-> 0] }

ClockValues == {t \in 0..MaxNow : t % TickHours = 0}

\* Every shape of bearer token: either key, each kind of sub and email claim,
\* each expiry, one with another algorithm, and one that is no JWT.
SubClaims ==
    {NoClaim, IntClaim(1), IntClaim(2), NumStrClaim(1), NumStrClaim(2), NumStrClaim(3),
     StrClaim("abc")}
EmailClaims ==
    {NoClaim, StrClaim("test@example.com"), StrClaim("newuser@example.com"),
     StrClaim(MalformedEmail)}
ExpClaims == {NoClaim} \cup {IntClaim(t + ACCESS_TOKEN_EXPIRE_HOURS) : t \in ClockValues}

Tokens ==
    { JwtEncode(c, k, ALGORITHM) :
        c \in [sub : SubClaims, email : EmailClaims, exp : ExpClaims],
        k \in {jwt_secret_key, "other-key"} }
    \cup { JwtEncode([sub |-> NumStrClaim(1), email |-> StrClaim("test@example.com"),
                      exp |-> NoClaim], jwt_secret_key, "HS512"),
           MalformedToken }

AllCreds == {NoCreds} \cup {Bearer(tok) : tok \in Tokens}

\* The token of authenticated_client_factory / dev_login for user u, made at t.
TokenFor(u, t) == create_access_token([sub |-> IntClaim(u.id), email |-> StrClaim(u.email)], t)

\* A token the API accepts for user u: as TokenFor, with the id as a string.
StringSubTokenFor(u, t) ==
    create_access_token([sub |-> NumStrClaim(u.id), email |-> StrClaim(u.email)], t)

\* The credentials sent to the occasion endpoints.
OccasionCreds ==
    {NoCreds} \cup {Bearer(StringSubTokenFor(u, 0)) : u \in SeedUsers}
              \cup {Bearer(TokenFor(u, 0)) : u \in {v \in SeedUsers : v.id = 1}}

ListCreds == {NoCreds} \cup {Bearer(StringSubTokenFor(u, 0)) : u \in SeedUsers}

MeRequests == {[NoReq EXCEPT !.endpoint = "me", !.creds = c] : c \in AllCreds}

ApiMeRequests == {[NoReq EXCEPT !.endpoint = "me", !.creds = c] : c \in OccasionCreds}

CreateRequests ==
    {[NoReq EXCEPT !.endpoint = "create", !.creds = c, !.payload = p] :
        c \in OccasionCreds, p \in Payloads}

ListRequests ==
    {[NoReq EXCEPT !.endpoint = "list", !.creds = c, !.filters = f] :
        c \in ListCreds, f \in Filters}

(***************************************************************************)
(* Date strings and datetime.strptime                                      *)
(*                                                                         *)
(* A date string is a sequence of tokens: a run of digits (its value v and *)
(* its number of digits w), a separator character c, a run of whitespace,  *)
(* or a word (v is its month number when it is a month's full name or      *)
(* three-letter abbreviation, 0 when it is no month). A single digit with  *)
(* one space before it, standing right after a separator, is a token of    *)
(* its own, since %d takes it as a day.                                    *)
(***************************************************************************)

Num(v, w) == [k |-> "num", v |-> v, w |-> w, c |-> ""]
Sep(c) == [k |-> "sep", v |-> 0, w |-> 0, c |-> c]
SpNum(v) == [k |-> "spnum", v |-> v, w |-> 1, c |-> " "]
Ws == [k |-> "ws", v |-> 0, w |-> 0, c |-> " "]
MonthName(m) == [k |-> "word", v |-> m, w |-> 0, c |-> "full"]
MonthAbbr(m) == [k |-> "word", v |-> m, w |-> 0, c |-> "abbr"]
Word == [k |-> "word", v |-> 0, w |-> 0, c |-> "other"]

\* Does token x match the format item f?  %Y is four digits; %m is 1..12 and
\* %d is 1..31 in one or two digits, %d also a space and one digit; %B and
\* %b are a month's name; a space in the format takes a run of whitespace; a
\* literal takes itself.
MatchesItem(x, f) ==
    CASE f = "%Y" -> x.k = "num" /\ x.w = 4
      [] f = "%m" -> x.k = "num" /\ x.w \in {1, 2} /\ x.v \in 1..12 /\ (x.w = 1 => x.v <= 9)
      [] f = "%d" -> \/ x.k = "num" /\ x.w \in {1, 2} /\ x.v \in 1..31 /\ (x.w = 1 => x.v <= 9)
                     \/ x.k = "spnum" /\ x.v \in 1..9
      [] f = "%B" -> x.k = "word" /\ x.v # 0 /\ (x.c = "full" \/ x.v = 5)
      [] f = "%b" -> x.k = "word" /\ x.v # 0 /\ (x.c = "abbr" \/ x.v = 5)
      [] f = " " -> x.k = "ws"
      [] OTHER -> x.k = "sep" /\ x.c = f

\* The value the token matched by item f carries, 0 when fmt has no such item.
FieldOf(s, fmt, fs) ==
    IF \E i \in 1..Len(fmt) : fmt[i] \in fs
    THEN s[CHOOSE i \in 1..Len(fmt) : fmt[i] \in fs].v
    ELSE 0

NoDate == [y |-> 0, m |-> 0, d |-> 0]

\* datetime.strptime(s, fmt): the date, or NoDate for a ValueError (the text
\* does not match the format, or names no real date).
Strptime(s, fmt) ==
    IF Len(s) = Len(fmt) /\ \A i \in 1..Len(fmt) : MatchesItem(s[i], fmt[i])
    THEN LET date == [y |-> FieldOf(s, fmt, {"%Y"}),
                      m |-> FieldOf(s, fmt, {"%m", "%B", "%b"}),
                      d |-> FieldOf(s, fmt, {"%d"})]
         IN  IF ValidDate(date) THEN date ELSE NoDate
    ELSE NoDate

IsoFormat == <<"%Y", "-", "%m", "-", "%d">>

\* parsed.strftime("%Y-%m-%d"): four, two and two digits.
StrftimeIso(date) == <<Num(date.y, 4), Sep("-"), Num(date.m, 2), Sep("-"), Num(date.d, 2)>>

\* The date string ds is a real date written YYYY-MM-DD, zero-padded: what a
\* pydantic date field takes from a string.
IsIsoDate(ds) ==
    /\ Strptime(ds, IsoFormat) # NoDate
    /\ ds = StrftimeIso(Strptime(ds, IsoFormat))

(***************************************************************************)
(* mini-mvp/main.py: the server-rendered app                               *)
(***************************************************************************)

\* str.strip() on a text held as a sequence of characters.
IsSpace(c) == c \in {" ", "\t", "\n"}

RECURSIVE LStrip(_)
LStrip(s) == IF s # <<>> /\ IsSpace(Head(s)) THEN LStrip(Tail(s)) ELSE s

RECURSIVE RStrip(_)
RStrip(s) ==
    IF s # <<>> /\ IsSpace(s[Len(s)]) THEN RStrip(SubSeq(s, 1, Len(s) - 1)) ELSE s

Strip(s) == RStrip(LStrip(s))

\* The texts the form may post.
Texts == {<<>>, <<" ", "\t">>, <<"a">>, <<" ", "b">>}

\* What extractor.extract_occasion_data(text) may hand back: nothing, or a
\* record with person, occasion_type and date.
NoExtraction == [some |-> FALSE, person |-> None, occasion_type |-> None, date |-> <<>>]

Extracted(person, occasion_type, date) ==
    [some |-> TRUE, person |-> person, occasion_type |-> occasion_type, date |-> date]

Extractions ==
    { NoExtraction,
      Extracted("Bahar", "birthday", <<Num(2025, 4), Sep("-"), Num(4, 2), Sep("-"), Num(4, 2)>>),
      Extracted("Mom", "anniversary", <<Num(2025, 4), Sep("-"), Num(4, 1), Sep("-"), Num(5, 1)>>),
      Extracted("Bahar", "birthday", <<Num(2025, 4), Sep("-"), Num(2, 2), Sep("-"), Num(30, 2)>>),
      Extracted("Mom", "birthday", <<Num(4, 2), Sep("/"), Num(4, 2)>>) }

\* The most occasions the server-rendered app's table holds here.
MaxWebOccasions == 3

\* Variant: the row keeps the text without the whitespace around it.
WebOccasionRowStripped(tbl, extracted_data, occasion_text) ==
    [id |-> Len(tbl) + 1,
     person |-> extracted_data.person,
     occasion_type |-> extracted_data.occasion_type,
     occasion_date |-> Strptime(extracted_data.date, IsoFormat),
     raw_input |-> Strip(occasion_text),
     created_at |-> Len(tbl) + 1]

\* Occasion(person=..., occasion_type=..., occasion_date=..., raw_input=...)
\* after commit and refresh: the next rowid; created_at orders the rows as
\* they were inserted.
WebOccasionRow(tbl, extracted_data, occasion_text) ==
    [id |-> Len(tbl) + 1,
     person |-> extracted_data.person,
     occasion_type |-> extracted_data.occasion_type,
     occasion_date |-> Strptime(extracted_data.date, IsoFormat),
     raw_input |-> occasion_text,
     created_at |-> Len(tbl) + 1]

WebError(msg) == [for |-> "add_occasion", ok |-> FALSE, message |-> msg]

\* How the statements of the try block end: all return, db.commit() raises,
\* or db.commit() returns and db.refresh(occasion) raises.
Saved == "saved"
CommitRaises == "commit raises"
RefreshRaises == "refresh raises"
SaveOutcomes == {Saved, CommitRaises, RefreshRaises}

\* POST /add_occasion. save: how the statements of the try block end. What
\* was committed stays when a later statement raises: the rollback of the
\* except clause undoes only what is not yet committed.
AddOccasion(occasion_text, extracted_data, save) ==
    LET occasion == WebOccasionRow(webOccasions, extracted_data, occasion_text)
    IN  IF Strip(occasion_text) = <<>>
        THEN /\ webResp' = WebError("Please enter some text")
             /\ webOccasions' = webOccasions
        ELSE IF ~extracted_data.some
        THEN /\ webResp' = WebError("Sorry, I couldn't extract occasion information")
             /\ webOccasions' = webOccasions
        ELSE IF occasion.occasion_date = NoDate \/ save = CommitRaises
        THEN /\ webResp' = WebError("Error saving occasion")
             /\ webOccasions' = webOccasions
        ELSE IF save = RefreshRaises
        THEN /\ Len(webOccasions) < MaxWebOccasions
             /\ webOccasions' = Append(webOccasions, occasion)
             /\ webResp' = WebError("Error saving occasion")
        ELSE /\ Len(webOccasions) < MaxWebOccasions
             /\ webOccasions' = Append(webOccasions, occasion)
             /\ webResp' = [for |-> "add_occasion", ok |-> TRUE, card |-> occasion]

\* query(Occasion).order_by(Occasion.created_at.desc()).all()
RECURSIVE NewestFirst(_)
NewestFirst(tbl) ==
    IF tbl = <<>> THEN <<>> ELSE <<tbl[Len(tbl)]>> \o NewestFirst(SubSeq(tbl, 1, Len(tbl) - 1))

\* GET /occasions: a card per stored occasion, newest first.
GetOccasions ==
    /\ webResp' = [for |-> "occasions", ok |-> TRUE, cards |-> NewestFirst(webOccasions)]
    /\ webOccasions' = webOccasions

(***************************************************************************)
(* backend/ai_extractor.py: _normalise_date                                *)
(***************************************************************************)

NotNormalised == [ok |-> FALSE, s |-> <<>>]
Normalised(s) == [ok |-> TRUE, s |-> s]

\* date_str.strip(): the whitespace at either end goes, the space before a
\* leading digit included.
StripDate(s) == LET IsWs(x) == x.k = "ws"
                    lead == IF s # <<>> /\ IsWs(Head(s)) THEN 2 ELSE 1
                    last == IF Len(s) >= lead /\ IsWs(s[Len(s)]) THEN Len(s) - 1 ELSE Len(s)
                    kept == SubSeq(s, lead, last)
                IN  IF kept # <<>> /\ Head(kept).k = "spnum"
                    THEN <<Num(Head(kept).v, 1)>> \o Tail(kept)
                    ELSE kept

\* re.sub(r"[/.]", "-", s)
DashDelimiters(s) ==
    [i \in 1..Len(s) |-> IF s[i].k = "sep" /\ s[i].c \in {"/", "."} THEN Sep("-") ELSE s[i]]

\* re.fullmatch(r"\d{1,2}-\d{1,2}", s)
IsDayMonthOnly(s) ==
    /\ Len(s) = 3
    /\ s[1].k = "num" /\ s[1].w \in {1, 2}
    /\ s[2] = Sep("-")
    /\ s[3].k = "num" /\ s[3].w \in {1, 2}

\* Variant: the month-first format listed before the day-first one.
known_formats_month_first ==
    << <<"%Y", "-", "%m", "-", "%d">>,
       <<"%m", "-", "%d", "-", "%Y">>,
       <<"%d", "-", "%m", "-", "%Y">>,
       <<"%B", " ", "%d", " ", "%Y">>,
       <<"%b", " ", "%d", " ", "%Y">> >>

known_formats ==
    << <<"%Y", "-", "%m", "-", "%d">>,
       <<"%d", "-", "%m", "-", "%Y">>,
       <<"%m", "-", "%d", "-", "%Y">>,
       <<"%B", " ", "%d", " ", "%Y">>,
       <<"%b", " ", "%d", " ", "%Y">> >>

\* The loop over known_formats from format i on: the first that parses wins.
RECURSIVE TryFormats(_, _)
TryFormats(candidate, i) ==
    IF i > Len(known_formats) THEN NotNormalised
    ELSE IF Strptime(candidate, known_formats[i]) # NoDate
         THEN Normalised(StrftimeIso(Strptime(candidate, known_formats[i])))
         ELSE TryFormats(candidate, i + 1)

\* _normalise_date(date_str) in the year current_year.
normalise_date(date_str, current_year) ==
    IF Strptime(date_str, IsoFormat) # NoDate
    THEN Normalised(date_str)
    ELSE LET dashed == DashDelimiters(StripDate(date_str))
             candidate == IF IsDayMonthOnly(dashed)
                          THEN <<Num(current_year, 4), Sep("-")>> \o dashed
                          ELSE dashed
         IN  TryFormats(candidate, 1)

(***************************************************************************)
(* backend/ai_extractor.py: extract_occasion_data                          *)
(***************************************************************************)

\* A value of the reply's JSON object: missing, null, a string, a number, or
\* a list. A string holds text s; in the date field it holds the date string
\* ds; in the confidence field n is the number it spells, in hundredths
\* (numeric), or it spells none.
JMissing == [t |-> "missing", s |-> "", n |-> 0, numeric |-> FALSE, ds |-> <<>>]
JNull == [JMissing EXCEPT !.t = "null"]
JList == [JMissing EXCEPT !.t = "list"]
JStr(s) == [JMissing EXCEPT !.t = "str", !.s = s]
JNum(n) == [JMissing EXCEPT !.t = "num", !.n = n, !.numeric = TRUE]
JNumStr(n) == [JMissing EXCEPT !.t = "str", !.s = "digits", !.n = n, !.numeric = TRUE]
JDate(ds) == [JMissing EXCEPT !.t = "str", !.ds = ds]

NoObject ==
    [person |-> JMissing, occasion_type |-> JMissing, date |-> JMissing,
     confidence |-> JMissing, relationship |-> JMissing, notes |-> JMissing]

\* The text of a reply: maybe whitespace around it; what stands between is a
\* bare word (letters) or a JSON document (a scalar, a list, or an object).
WordText(lead, trail, word) ==
    [lead |-> lead, trail |-> trail, k |-> "word", word |-> word, doc |-> "", obj |-> NoObject]
DocText(lead, trail, doc, obj) ==
    [lead |-> lead, trail |-> trail, k |-> "json", word |-> <<>>, doc |-> doc, obj |-> obj]

\* str.strip() and str.lower() on a reply.
StripText(txt) == [txt EXCEPT !.lead = FALSE, !.trail = FALSE]
LowerText(txt) == [txt EXCEPT !.word = Lower(txt.word)]

NullText == WordText(FALSE, FALSE, <<"n", "u", "l", "l">>)

\* json.loads(text): the kind of value, "error" for a JSONDecodeError.
\* Whitespace around the document is allowed; a bare word is JSON only when
\* it is null, true or false.
JsonLoads(txt) ==
    IF txt.k = "json" THEN txt.doc
    ELSE IF txt.word = <<"n", "u", "l", "l">> THEN "null"
    ELSE IF txt.word = <<"t", "r", "u", "e">> THEN "bool"
    ELSE "error"

required == {"person", "occasion_type", "date", "confidence"}

\* data.keys()
Keys(obj) == {key \in DOMAIN obj : obj[key].t # "missing"}

\* float(x) succeeds on a number and on a string that spells one.
FloatOk(x) == x.t = "num" \/ (x.t = "str" /\ x.numeric)

\* str(value).lower() in {"", "null", "none"}
NullLike(x) == x.t = "null" \/ (x.t = "str" /\ x.s \in {"", "null", "NULL", "none", "None"})

Returned(val) == [kind |-> "return", exc |-> "", val |-> val]
Raised(exc) == [kind |-> "raise", exc |-> exc, val |-> [none |-> TRUE]]

ReturnNone == Returned([none |-> TRUE])

\* The (data, confidence) tuple: data is the object without its confidence
\* key, with the normalised date and the null-like relationship and notes
\* replaced by None.
ResultTuple(obj, date) ==
    [none |-> FALSE,
     data |-> [person |-> obj.person,
               occasion_type |-> obj.occasion_type,
               date |-> JDate(date),
               confidence |-> JMissing,
               relationship |-> IF obj.relationship.t # "missing" /\ NullLike(obj.relationship)
                                THEN JNull ELSE obj.relationship,
               notes |-> IF obj.notes.t # "missing" /\ NullLike(obj.notes)
                         THEN JNull ELSE obj.notes],
     confidence |-> obj.confidence.n]

\* The body of the try block, for the outcome c of the completion call.
ExtractTry(c, current_year) ==
    IF c.call = "raises" THEN Raised("APIError")
    ELSE IF c.call = "not_awaitable" THEN Raised("TypeError")
    ELSE IF ~c.has_content THEN Raised("AttributeError")
    ELSE LET result_text == StripText(c.content)
             data == JsonLoads(result_text)
             obj == result_text.obj
         IN  IF LowerText(result_text) = NullText THEN ReturnNone
             ELSE IF data = "error" THEN Raised("JSONDecodeError")
             ELSE IF data # "object" THEN Raised("AttributeError")
             ELSE IF ~(required \subseteq Keys(obj)) THEN ReturnNone
             ELSE IF ~FloatOk(obj.confidence)
                  THEN Raised(IF obj.confidence.t = "str" THEN "ValueError" ELSE "TypeError")
             ELSE IF obj.date.t # "str" THEN Raised("TypeError")
             ELSE IF ~normalise_date(obj.date.ds, current_year).ok THEN ReturnNone
             ELSE Returned(ResultTuple(obj, normalise_date(obj.date.ds, current_year).s))

\* The exceptions that derive from Exception.
Exceptions == {"APIError", "TypeError", "AttributeError", "ValueError", "JSONDecodeError"}

\* Variant: only the JSONDecodeError clause.
extract_occasion_data_json_only(c, current_year) ==
    LET r == ExtractTry(c, current_year)
    IN  IF r.kind = "return" THEN [kind |-> "returned", val |-> r.val]
        ELSE IF r.exc = "JSONDecodeError" THEN [kind |-> "returned", val |-> [none |-> TRUE]]
        ELSE [kind |-> "raised", val |-> [none |-> TRUE]]

\* extract_occasion_data: the try block under its two except clauses.
extract_occasion_data(c, current_year) ==
    LET r == ExtractTry(c, current_year)
    IN  IF r.kind = "return" THEN [kind |-> "returned", val |-> r.val]
        ELSE IF r.exc = "JSONDecodeError" THEN [kind |-> "returned", val |-> [none |-> TRUE]]
        ELSE IF r.exc \in Exceptions THEN [kind |-> "returned", val |-> [none |-> TRUE]]
        ELSE [kind |-> "raised", val |-> [none |-> TRUE]]

Pending == [kind |-> "pending", val |-> [none |-> TRUE]]

\* One call of extract_occasion_data on the completion outcome at hand.
Extract ==
    /\ exOut = Pending
    /\ exOut' = extract_occasion_data(exIn, Today(now).y)
    /\ exIn' = exIn

(***************************************************************************)
(* api/occasions.py: extract_occasion                                      *)
(***************************************************************************)

\* OccasionCreate(**body): raw_input of length >= 1.
OccasionCreateValid(p) == p.raw_input # ""

\* A string field of OccasionExtracted that may be None.
OptionalStr(x) == IF x.t = "str" THEN x.s ELSE None

\* OccasionExtracted(person=data["person"], ..., confidence_score=confidence,
\* raw_input=payload.raw_input) validates: person and occasion_type are
\* strings of length >= 1, the date string is a date, relationship and notes
\* are strings or None, and 0.0 <= confidence <= 1.0 (held in hundredths).
ExtractedRecordValid(result) ==
    /\ result.data.person.t = "str" /\ result.data.person.s # ""
    /\ result.data.occasion_type.t = "str" /\ result.data.occasion_type.s # ""
    /\ result.data.date.t = "str" /\ IsIsoDate(result.data.date.ds)
    /\ result.data.relationship.t \in {"missing", "null", "str"}
    /\ result.data.notes.t \in {"missing", "null", "str"}
    /\ result.confidence \in 0..100

ExtractedRecord(result, raw_input) ==
    [person |-> result.data.person.s,
     occasion_type |-> result.data.occasion_type.s,
     occasion_date |-> Strptime(result.data.date.ds, IsoFormat),
     person_relationship |-> OptionalStr(result.data.relationship),
     notes |-> OptionalStr(result.data.notes),
     confidence_score |-> result.confidence,
     raw_input |-> raw_input]

\* POST /occasions/extract, with c what the completion call does. The route
\* has no dependencies: no user, no database session.
ExtractOccasion(r, c) ==
    /\ r.endpoint = "extract"
    /\ LET result == extract_occasion_data(c, Today(now).y)
       IN  /\ IF ~OccasionCreateValid(r.payload)
              THEN /\ resp' = Unprocessable("extract", now)
                   /\ UNCHANGED <<exIn, exOut>>
              ELSE /\ exIn' = c
                   /\ exOut' = result
                   /\ resp' = IF result.kind = "raised"
                              THEN [for |-> "extract", at |-> now, status |-> 500,
                                    detail |-> "Internal Server Error"]
                              ELSE IF result.val.none
                              THEN [for |-> "extract", at |-> now, status |-> 422,
                                    detail |-> "Could not extract occasion data"]
                              ELSE IF ~ExtractedRecordValid(result.val)
                              THEN [for |-> "extract", at |-> now, status |-> 500,
                                    detail |-> "Internal Server Error"]
                              ELSE [for |-> "extract", at |-> now, status |-> 200,
                                    body |-> ExtractedRecord(result.val, r.payload.raw_input)]
    /\ req' = r
    /\ UNCHANGED <<users, occasions, now, login>>

\* The bodies sent to POST /occasions/extract.
ExtractRequests ==
    {[NoReq EXCEPT !.endpoint = "extract", !.payload = [NoPayload EXCEPT !.raw_input = text]] :
        text \in {"", "Jane Doe's birthday is on October 26th"}}

\* A reply object with the given date and confidence.
ReplyWith(date, confidence) ==
    DocText(FALSE, FALSE, "object",
            [person |-> JStr("Jane Doe"), occasion_type |-> JStr("Birthday"),
             date |-> JDate(date), confidence |-> confidence,
             relationship |-> JStr("friend"), notes |-> JNull])

\* What the completion call does for them: it fails; its response cannot be
\* awaited; or the reply is the word null, no JSON, or an object with a
\* padded date, an unpadded one or a year-less one, and a confidence within
\* or beyond 1.0.
ApiCompletions ==
    { [call |-> "raises", has_content |-> FALSE, content |-> WordText(FALSE, FALSE, <<>>)] }
    \cup { [call |-> "not_awaitable", has_content |-> TRUE, content |-> txt] :
             txt \in { ReplyWith(<<Num(2024, 4), Sep("-"), Num(10, 2), Sep("-"), Num(26, 2)>>, JNum(95)) } }
    \cup { [call |-> "returns", has_content |-> TRUE, content |-> txt] :
             txt \in { NullText,
                       WordText(FALSE, FALSE, <<"n", "o", "t", " ", "j", "s", "o", "n">>),
                       ReplyWith(<<Num(2024, 4), Sep("-"), Num(10, 2), Sep("-"), Num(26, 2)>>, JNum(95)),
                       ReplyWith(<<Num(2024, 4), Sep("-"), Num(10, 2), Sep("-"), Num(26, 2)>>, JNum(150)),
                       ReplyWith(<<Num(2024, 4), Sep("-"), Num(4, 1), Sep("-"), Num(4, 1)>>, JNumStr(90)),
                       ReplyWith(<<Num(4, 2), Sep("/"), Num(4, 2)>>, JNum(95)) } }

(***************************************************************************)
(* database.py: get_db; main.py: the sessions of post, get_occasions and   *)
(* post_search                                                             *)
(*                                                                         *)
(* A request handler runs in steps, so that requests of two clients        *)
(* interleave: the session is opened, the body of the try block uses it    *)
(* and returns or raises, add_occasion's except clause rolls back, and the *)
(* finally clause closes.                                                  *)
(***************************************************************************)

\* The most requests one client sends here.
MaxRequests == 1

\* The routes: any API route that depends on get_db, and the three routes of
\* the server-rendered app that call SessionLocal().
Routes == {"api", "add_occasion", "occasions", "search"}

NoHandler == [pc |-> "idle", route |-> "", n |-> 0, db |-> 0, raised |-> FALSE]

\* async_session() / SessionLocal(): a new open session, opened by request
\* n of client c on the route.
NewSession(c, n, route) ==
    [state |-> "open", by |-> <<c, n>>, route |-> route, used |-> {},
     raised |-> FALSE, rolled_back |-> FALSE]

\* The session after the body of the try block ran in request n of client c.
AfterBody(session, c, n, raised) ==
    [session EXCEPT !.used = @ \cup {<<c, n>>}, !.raised = raised]

\* except Exception: db.rollback()
AfterExcept(session) == [session EXCEPT !.rolled_back = TRUE]

\* Variant: the session is closed at the end of the try block only.
AfterTryOnly(session) ==
    IF session.raised THEN session ELSE [session EXCEPT !.state = "closed"]

\* finally: db.close() / await session.close(), then the end of async with.
AfterFinally(session) == [session EXCEPT !.state = "closed"]

\* A request arrives at client c's worker.
Receive(c, route) ==
    /\ handler[c].pc = "idle"
    /\ handler[c].n < MaxRequests
    /\ handler' = [handler EXCEPT ![c] = [pc |-> "received", route |-> route,
                                          n |-> handler[c].n + 1, db |-> 0, raised |-> FALSE]]
    /\ UNCHANGED sessions

\* The request ends before any session is opened: add_occasion's two early
\* returns, and post_search when reading the form raises.
ReturnEarly(c) ==
    /\ handler[c].pc = "received"
    /\ handler[c].route \in {"add_occasion", "search"}
    /\ handler' = [handler EXCEPT ![c].pc = "done"]
    /\ UNCHANGED sessions

\* db = SessionLocal(), or get_db up to its yield.
OpenSession(c) ==
    /\ handler[c].pc = "received"
    /\ sessions' = Append(sessions, NewSession(c, handler[c].n, handler[c].route))
    /\ handler' = [handler EXCEPT ![c].pc = "try", ![c].db = Len(sessions) + 1]

\* The body of the try block (for get_db: the route that received the
\* session) uses the session; it returns or it raises.
TryBody(c, raised) ==
    /\ handler[c].pc = "try"
    /\ sessions' = [sessions EXCEPT ![handler[c].db] =
                        AfterBody(@, c, handler[c].n, raised)]
    /\ handler' = [handler EXCEPT
                      ![c].raised = raised,
                      ![c].pc = IF raised /\ handler[c].route = "add_occasion"
                                THEN "except" ELSE "finally"]

\* add_occasion's except clause.
ExceptRollback(c) ==
    /\ handler[c].pc = "except"
    /\ sessions' = [sessions EXCEPT ![handler[c].db] = AfterExcept(@)]
    /\ handler' = [handler EXCEPT ![c].pc = "finally"]

\* The finally clause.
FinallyClose(c) ==
    /\ handler[c].pc = "finally"
    /\ sessions' = [sessions EXCEPT ![handler[c].db] = AfterFinally(@)]
    /\ handler' = [handler EXCEPT ![c].pc = "done"]

\* The request ends: its answer, or the exception, leaves the handler.
EndRequest(c) ==
    /\ handler[c].pc = "done"
    /\ handler' = [handler EXCEPT ![c].pc = "idle", ![c].db = 0]
    /\ UNCHANGED sessions

(***************************************************************************)
(* archive/mini-mvp/backend/ai_extractor.py: extract_occasion_data by      *)
(* pattern matching                                                        *)
(*                                                                         *)
(* A text is a sequence of tokens, as a date string is. A word that is no  *)
(* month carries its letters in c; a number followed by st, nd, rd or th   *)
(* is a token of its own, and so is the possessive 's. Numbers have one,   *)
(* two or four digits.                                                     *)
(***************************************************************************)

W(word) == [k |-> "word", v |-> 0, w |-> 0, c |-> word]
Ord(v, w) == [k |-> "ord", v |-> v, w |-> w, c |-> "th"]
Poss == [k |-> "poss", v |-> 0, w |-> 0, c |-> "'s"]
NoTok == [k |-> "end", v |-> 0, w |-> 0, c |-> ""]

Tok(text, i) == IF i \in 1..Len(text) THEN text[i] ELSE NoTok

\* str.lower() and str.capitalize() on the words of the texts.
LowerWord(word) ==
    CASE word = "John" -> "john"
      [] word = "JO" -> "jo"
      [] word = "Mom" -> "mom"
      [] word = "WEDDING" -> "wedding"
      [] OTHER -> word

Capitalize(word) ==
    CASE word = "john" -> "John"
      [] word = "jo" -> "Jo"
      [] word = "mom" -> "Mom"
      [] word = "happy" -> "Happy"
      [] OTHER -> word

OccasionWords == {"birthday", "anniversary", "graduation", "wedding"}

\* \w+ : letters, digits and the underscore.
IsWordy(x) == x.k \in {"word", "num", "ord"}

\* str.isalpha()
IsAlpha(x) == x.k = "word" /\ x.c \notin {"room2"}

IsOccasionWord(x) == x.k = "word" /\ x.v = 0 /\ LowerWord(x.c) \in OccasionWords

\* The least member of a set of indexes, 0 when there is none.
FirstIndex(S) == IF S = {} THEN 0 ELSE CHOOSE i \in S : \A j \in S : i <= j

\* re.search(r"(\w+)'?s?\s+(birthday|anniversary|graduation|wedding)",
\* text.lower()): where the leftmost match starts, and where its occasion
\* word stands.
PersonMatchAt(text, i) ==
    /\ IsWordy(Tok(text, i))
    /\ \/ Tok(text, i + 1).k = "ws" /\ IsOccasionWord(Tok(text, i + 2))
       \/ /\ Tok(text, i + 1).k = "poss"
          /\ Tok(text, i + 2).k = "ws"
          /\ IsOccasionWord(Tok(text, i + 3))

PersonMatch(text) == FirstIndex({i \in 1..Len(text) : PersonMatchAt(text, i)})

OccasionWordAt(text, i) == IF Tok(text, i + 1).k = "poss" THEN i + 3 ELSE i + 2

\* What a group of digits takes of a number: (\d{1,2}) before a delimiter
\* takes its last two digits, (\d{1,2}) after one its first two.
LastTwo(x) == IF x.w <= 2 THEN x ELSE Num(x.v % 100, 2)
FirstTwo(x) == IF x.w <= 2 THEN Num(x.v, x.w) ELSE Num(x.v \div 100, 2)

IsNum(x) == x.k = "num"

NoGroup == NoTok
NoMatch == [found |-> FALSE, groups |-> <<>>]
Match(groups) == [found |-> TRUE, groups |-> groups]

\* r"(\d{1,2})/(\d{1,2})/(\d{4})"
SlashYearAt(text, i) ==
    /\ IsNum(Tok(text, i)) /\ Tok(text, i + 1) = Sep("/")
    /\ IsNum(Tok(text, i + 2)) /\ Tok(text, i + 2).w <= 2
    /\ Tok(text, i + 3) = Sep("/")
    /\ IsNum(Tok(text, i + 4)) /\ Tok(text, i + 4).w = 4

\* r"(\d{1,2})/(\d{1,2})"
SlashAt(text, i) ==
    /\ IsNum(Tok(text, i)) /\ Tok(text, i + 1) = Sep("/")
    /\ Tok(text, i + 2).k \in {"num", "ord"}

\* r"(\d{4})-(\d{1,2})-(\d{1,2})"
DashAt(text, i) ==
    /\ IsNum(Tok(text, i)) /\ Tok(text, i).w = 4
    /\ Tok(text, i + 1) = Sep("-")
    /\ IsNum(Tok(text, i + 2)) /\ Tok(text, i + 2).w <= 2
    /\ Tok(text, i + 3) = Sep("-")
    /\ Tok(text, i + 4).k \in {"num", "ord"}

\* r"(\w+)\s+(\d{1,2})(?:st|nd|rd|th)?,?\s*(\d{4})?"
WordDayAt(text, i) ==
    /\ IsWordy(Tok(text, i))
    /\ Tok(text, i + 1).k = "ws"
    /\ Tok(text, i + 2).k \in {"num", "ord"}

\* The optional year of that pattern: after a day of one or two digits, past
\* a comma and whitespace if there are any.
YearAfterDay(text, i) ==
    LET afterComma == IF Tok(text, i + 3) = Sep(",") THEN i + 4 ELSE i + 3
        afterSpace == IF Tok(text, afterComma).k = "ws" THEN afterComma + 1 ELSE afterComma
    IN  IF Tok(text, i + 2).w <= 2 /\ IsNum(Tok(text, afterSpace)) /\ Tok(text, afterSpace).w = 4
        THEN Tok(text, afterSpace)
        ELSE NoGroup

\* re.search(pattern, text) for date_patterns[n]: the groups of the
\* leftmost match.
SearchDate(n, text) ==
    LET at == FirstIndex({i \in 1..Len(text) :
                             CASE n = 1 -> SlashYearAt(text, i)
                               [] n = 2 -> SlashAt(text, i)
                               [] n = 3 -> DashAt(text, i)
                               [] OTHER -> WordDayAt(text, i)})
    IN  IF at = 0 THEN NoMatch
        ELSE CASE n = 1 -> Match(<<LastTwo(text[at]), text[at + 2], text[at + 4]>>)
               [] n = 2 -> Match(<<LastTwo(text[at]), FirstTwo(text[at + 2])>>)
               [] n = 3 -> Match(<<text[at], text[at + 2], FirstTwo(text[at + 4])>>)
               [] OTHER -> Match(<<text[at], FirstTwo(text[at + 2]), YearAfterDay(text, at)>>)

\* f"{n:02d}": at least two digits.
Pad2(n) == Num(n, IF n < 100 THEN 2 ELSE IF n < 1000 THEN 3 ELSE 4)

\* int(group) of a group of digits; anything else is a ValueError.
IntOk(x) == x.k = "num"

\* datetime.strptime(word, "%B").month, else with "%b"; 0 when neither parses.
MonthOf(x) == IF MatchesItem(x, "%B") \/ MatchesItem(x, "%b") THEN x.v ELSE 0

NoDateStr == [set |-> FALSE, raised |-> FALSE, s |-> <<>>]
DateStr(s) == [set |-> TRUE, raised |-> FALSE, s |-> s]
DateRaises == [set |-> FALSE, raised |-> TRUE, s |-> <<>>]

\* The body of the loop for a match with the groups g: what date_str is
\* afterwards, and whether the loop goes on with the next pattern.
FromGroups(g, current_year) ==
    IF Len(g) = 3 /\ g[3] # NoGroup
    THEN IF IsAlpha(g[1])
         THEN IF MonthOf(g[1]) = 0
              THEN [date |-> NoDateStr, continue |-> TRUE]
              ELSE [date |-> DateStr(<<g[3], Sep("-"), Pad2(MonthOf(g[1])), Sep("-"), Pad2(g[2].v)>>),
                    continue |-> FALSE]
         ELSE IF ~IntOk(g[1])
              THEN [date |-> DateRaises, continue |-> FALSE]
              ELSE [date |-> DateStr(<<g[3], Sep("-"), Pad2(g[1].v), Sep("-"), Pad2(g[2].v)>>),
                    continue |-> FALSE]
    ELSE IF Len(g) = 2
    THEN [date |-> DateStr(<<Num(current_year, 4), Sep("-"), Pad2(g[1].v), Sep("-"), Pad2(g[2].v)>>),
          continue |-> FALSE]
    ELSE [date |-> NoDateStr, continue |-> FALSE]

\* for pattern in date_patterns, from pattern n on.
RECURSIVE DateLoop(_, _, _)
DateLoop(n, text, current_year) ==
    IF n > 4 THEN NoDateStr
    ELSE LET found == SearchDate(n, text)
         IN  IF ~found.found THEN DateLoop(n + 1, text, current_year)
             ELSE IF FromGroups(found.groups, current_year).continue
                  THEN DateLoop(n + 1, text, current_year)
                  ELSE FromGroups(found.groups, current_year).date

\* The fallback date: a month from now.
DefaultDays == 30

\* person_match.group(1).capitalize()
PersonOf(text, at) == Capitalize(LowerWord(text[at].c))

\* extract_occasion_data(text) of the pattern-matching extractor, today
\* being the date of datetime.now().
regex_extract_occasion_data(text, today) ==
    LET at == PersonMatch(text)
        date == DateLoop(1, text, today.y)
    IN  IF at = 0 THEN [kind |-> "returned", val |-> [none |-> TRUE]]
        ELSE IF date.raised THEN [kind |-> "raised", val |-> [none |-> TRUE]]
        ELSE [kind |-> "returned",
              val |-> [none |-> FALSE,
                       data |-> [person |-> PersonOf(text, at),
                                 occasion_type |-> LowerWord(text[OccasionWordAt(text, at)].c),
                                 date |-> IF date.set THEN date.s
                                          ELSE StrftimeIso(AddDays(today, DefaultDays)),
                                 relationship |-> None],
                       confidence |-> 80]]

\* One call of the pattern-matching extractor on the text at hand.
RegexExtract ==
    /\ exOut = Pending
    /\ exOut' = regex_extract_occasion_data(exIn.text, Today(now))
    /\ exIn' = exIn

(***************************************************************************)
(* Specifications                                                          *)
(***************************************************************************)

WebIdle == /\ webOccasions = <<>>
           /\ webResp = NoResp

DbIdle == /\ sessions = <<>>
          /\ handler = [c \in Clients |-> NoHandler]

ExIdle == /\ exIn = NoResp
          /\ exOut = NoResp

InitLogin ==
    /\ users = {}
    /\ occasions = <<>>
    /\ now = 0
    /\ login = [c \in Clients |-> Idle]
    /\ req = NoReq
    /\ resp = NoResp
    /\ WebIdle
    /\ DbIdle
    /\ ExIdle

NextLogin ==
    /\ \/ \E c \in Clients, body \in LoginBodies : DevLoginSelect(c, body)
       \/ \E c \in Clients : DevLoginFinish(c)
    /\ UNCHANGED <<webVars, exVars, dbVars>>

SpecLogin == InitLogin /\ [][NextLogin]_vars

\* GET /me under every credential, as time passes.
InitAuth ==
    /\ users = SeedUsers
    /\ occasions = <<>>
    /\ now = 0
    /\ login = [c \in Clients |-> Idle]
    /\ req = NoReq
    /\ resp = NoResp
    /\ WebIdle
    /\ DbIdle
    /\ ExIdle

NextAuth ==
    /\ \/ \E r \in MeRequests : ReadMe(r)
       \/ Tick
    /\ UNCHANGED <<webVars, exVars, dbVars>>

SpecAuth == InitAuth /\ [][NextAuth]_vars

\* The occasion endpoints, as time passes.
NextApi ==
    /\ \/ \E r \in ApiMeRequests : ReadMe(r)
       \/ \E r \in CreateRequests : CreateOccasion(r)
       \/ \E r \in ListRequests : ListOccasions(r)
       \/ Tick
    /\ UNCHANGED <<webVars, exVars, dbVars>>

SpecApi == InitAuth /\ [][NextApi]_vars

\* The server-rendered app.
InitWeb ==
    /\ users = {}
    /\ occasions = <<>>
    /\ now = 0
    /\ login = [c \in Clients |-> Idle]
    /\ req = NoReq
    /\ resp = NoResp
    /\ WebIdle
    /\ DbIdle
    /\ ExIdle

NextWeb ==
    /\ \/ \E text \in Texts, e \in Extractions, save \in SaveOutcomes :
              AddOccasion(text, e, save)
       \/ GetOccasions
    /\ UNCHANGED <<apiVars, exVars, dbVars>>

SpecWeb == InitWeb /\ [][NextWeb]_vars

\* The date strings a reply may carry.
DateStrings ==
    { <<Num(2024, 4), Sep("-"), Num(10, 2), Sep("-"), Num(26, 2)>>,
      <<Num(2024, 4), Sep("-"), Num(4, 1), Sep("-"), Num(4, 1)>>,
      <<Num(2023, 4), Sep("-"), Num(2, 2), Sep("-"), Num(29, 2)>>,
      <<Num(4, 2), Sep("/"), Num(4, 2)>>,
      <<Num(31, 2), Sep("."), Num(4, 1)>>,
      <<Num(25, 2), Sep("-"), Num(12, 2), Sep("-"), Num(2024, 4)>>,
      <<Num(12, 2), Sep("/"), Num(25, 2), Sep("/"), Num(2024, 4)>>,
      <<Ws, MonthName(4), Ws, Num(4, 1), Ws, Num(2025, 4)>>,
      <<MonthAbbr(12), Ws, Num(15, 2), Sep(","), Ws, Num(2024, 4)>>,
      <<Word>>,
      <<>> }

\* The JSON objects a reply may be.
ReplyObjects ==
    [person : {JMissing, JStr("Jane Doe")},
     occasion_type : {JMissing, JStr("Birthday")},
     date : {JMissing, JNull, JNum(20241026)} \cup {JDate(ds) : ds \in DateStrings},
     confidence : {JMissing, JNull, JList, JNum(95), JNum(150), JNumStr(90), JStr("high")},
     relationship : {JMissing, JStr("null"), JStr("friend")},
     notes : {JNull}]

\* The reply texts: the word null in several cases, other bare words, JSON
\* scalars and lists, and JSON objects; bare or with whitespace around.
ReplyTexts ==
    { WordText(ws, ws, w) :
        ws \in BOOLEAN,
        w \in { <<"n", "u", "l", "l">>, <<"N", "U", "L", "L">>, <<"N", "u", "l", "l">>,
                <<"n", "u", "l">>, <<"t", "r", "u", "e">>, <<"n", "o", "t", " ", "j", "s", "o", "n">> } }
    \cup { DocText(ws, ws, doc, NoObject) : ws \in BOOLEAN, doc \in {"list", "string", "number"} }
    \cup { DocText(ws, ws, "object", obj) : ws \in BOOLEAN, obj \in ReplyObjects }

NoText == WordText(FALSE, FALSE, <<>>)

\* What `await completion(...)` may do: the call raises; it returns the
\* response itself, which holds the reply but cannot be awaited (litellm's
\* completion is a plain function); or awaiting it yields the response, whose
\* message content is None or a text.
CompletionOutcomes ==
    { [call |-> "raises", has_content |-> FALSE, content |-> NoText],
      [call |-> "returns", has_content |-> FALSE, content |-> NoText] }
    \cup { [call |-> how, has_content |-> TRUE, content |-> txt] :
               how \in {"not_awaitable", "returns"}, txt \in ReplyTexts }

\* extract_occasion_data on one completion outcome.
InitExtract ==
    /\ users = {}
    /\ occasions = <<>>
    /\ now = 0
    /\ login = [c \in Clients |-> Idle]
    /\ req = NoReq
    /\ resp = NoResp
    /\ WebIdle
    /\ DbIdle
    /\ exIn \in CompletionOutcomes
    /\ exOut = Pending

NextExtract ==
    /\ Extract
    /\ UNCHANGED <<apiVars, webVars, dbVars>>

SpecExtract == InitExtract /\ [][NextExtract]_vars

\* The numbers of one or two digits a date string may hold.
SmallNumbers ==
    {Num(0, 2), Num(2, 1), Num(4, 2), Num(12, 2), Num(13, 2), Num(29, 2), Num(30, 2), Num(31, 2)}

YearNumbers == {Num(2024, 4), Num(2025, 4)}

Delimiters == {"/", ".", "-"}

\* The strings _normalise_date is given: two numbers; three numbers with the
\* year last or first; the same with whitespace around or a space before
\* the day; month names; and strings that hold no date.
DateInputs ==
    { <<a, Sep(c), b>> : a \in SmallNumbers, b \in SmallNumbers, c \in Delimiters }
    \cup { <<a, Sep(c), b, Sep(c), y>> :
              a \in SmallNumbers, b \in SmallNumbers, c \in Delimiters, y \in YearNumbers }
    \cup { <<y, Sep(c), a, Sep(c), b>> :
              a \in SmallNumbers, b \in SmallNumbers, c \in Delimiters, y \in YearNumbers }
    \cup { <<Ws, Num(4, 1), Sep("/"), Num(5, 1), Ws>>,
           <<SpNum(4), Sep("/"), Num(5, 1)>>,
           <<Num(4, 2), Sep("/"), SpNum(4)>>,
           <<Num(5, 1), Sep("/"), SpNum(4), Sep("/"), Num(2025, 4)>>,
           <<Num(2024, 4), Sep("-"), Num(10, 2), Sep("-"), SpNum(5)>>,
           <<Num(2024, 4), Sep("-"), SpNum(1), Sep("-"), Num(5, 2)>>,
           <<Ws, Num(2024, 4), Sep("-"), Num(10, 2), Sep("-"), Num(26, 2), Ws>>,
           <<Num(5, 2), Sep("/"), Num(4, 2), Sep("."), Num(2025, 4)>>,
           <<Num(4, 1), Sep("/"), Num(4, 1), Sep("/"), Num(25, 2)>>,
           <<Num(123, 3), Sep("/"), Num(4, 1)>>,
           <<MonthName(4), Ws, Num(4, 1), Ws, Num(2025, 4)>>,
           <<MonthName(2), Ws, Num(30, 2), Ws, Num(2025, 4)>>,
           <<MonthAbbr(12), Ws, Num(15, 2), Ws, Num(2024, 4)>>,
           <<MonthAbbr(12), Ws, Num(15, 2), Sep(","), Ws, Num(2024, 4)>>,
           <<MonthName(5), Ws, Num(5, 2), Ws, Num(2025, 4)>>,
           <<Word, Ws, Num(4, 1), Ws, Num(2025, 4)>>,
           <<Word>>,
           <<Ws>>,
           <<>> }

\* The clock at which the year after the epoch's has begun.
NewYearClock == 8 * TickHours

\* One call of _normalise_date on the string at hand.
NormaliseDate ==
    /\ exOut = Pending
    /\ exOut' = [kind |-> "normalised", val |-> normalise_date(exIn.date_str, Today(now).y)]
    /\ exIn' = exIn

\* _normalise_date on one string, in either year.
InitNormalise ==
    /\ users = {}
    /\ occasions = <<>>
    /\ now \in {0, NewYearClock}
    /\ login = [c \in Clients |-> Idle]
    /\ req = NoReq
    /\ resp = NoResp
    /\ WebIdle
    /\ DbIdle
    /\ exIn \in {[date_str |-> ds] : ds \in DateInputs}
    /\ exOut = Pending

NextNormalise ==
    /\ NormaliseDate
    /\ UNCHANGED <<apiVars, webVars, dbVars>>

SpecNormalise == InitNormalise /\ [][NextNormalise]_vars

\* The phrases a text opens with: three that name a person and an occasion,
\* and three that do not.
RegexPhrases ==
    { <<W("John"), Poss, Ws, W("birthday")>>,
      <<W("JO"), Ws, W("WEDDING")>>,
      <<W("happy"), Ws, W("anniversary")>>,
      <<W("birthday")>>,
      <<W("John"), Ws, W("is"), Ws, W("graduating")>>,
      <<W("see"), Ws, W("you")>> }

\* The days of the year the texts speak of, and the years they give.
RegexDays == {[m |-> 3, d |-> 15], [m |-> 12, d |-> 25], [m |-> 4, d |-> 4]}
RegexYears == {2024, 2025}

\* A number as the text writes it: with or without its leading zero.
Written(n) == {Num(n, 2)} \cup (IF n < 10 THEN {Num(n, 1)} ELSE {})

\* A day after a month name: a number, or a number with st, nd, rd or th.
DayWritten(n) == Written(n) \cup {Ord(n, IF n < 10 THEN 1 ELSE 2)}

\* The way a text writes the date, by the shape it uses; shape "none" writes
\* no date, shape "other" something that is no date of the listed shapes.
RegexDates ==
    UNION {
      {[shape |-> "mdy", m |-> md.m, d |-> md.d, y |-> y,
        s |-> <<mm, Sep("/"), dd, Sep("/"), Num(y, 4)>>] :
          y \in RegexYears, mm \in Written(md.m), dd \in Written(md.d)}
      \cup
      {[shape |-> "md", m |-> md.m, d |-> md.d, y |-> 0,
        s |-> <<mm, Sep("/"), dd>>] :
          mm \in Written(md.m), dd \in Written(md.d)}
      \cup
      {[shape |-> "iso", m |-> md.m, d |-> md.d, y |-> y,
        s |-> <<Num(y, 4), Sep("-"), Num(md.m, 2), Sep("-"), Num(md.d, 2)>>] :
          y \in RegexYears}
      \cup
      {[shape |-> "name", m |-> md.m, d |-> md.d, y |-> y,
        s |-> <<month, Ws, day>> \o comma \o <<Ws, Num(y, 4)>>] :
          y \in RegexYears, month \in {MonthName(md.m), MonthAbbr(md.m)},
          day \in DayWritten(md.d), comma \in {<<>>, <<Sep(",")>>}}
      \cup
      {[shape |-> "name", m |-> md.m, d |-> md.d, y |-> 0,
        s |-> <<month, Ws, day>>] :
          month \in {MonthName(md.m), MonthAbbr(md.m)}, day \in DayWritten(md.d)}
      : md \in RegexDays }
    \cup
    { [shape |-> "none", m |-> 0, d |-> 0, y |-> 0, s |-> <<>>],
      [shape |-> "other", m |-> 0, d |-> 0, y |-> 0,
       s |-> <<W("room2"), Ws, Num(15, 2), Sep(","), Ws, Num(2025, 4)>>],
      [shape |-> "other", m |-> 0, d |-> 0, y |-> 0,
       s |-> <<Word, Ws, Num(12, 2), Ws, Num(2025, 4)>>],
      [shape |-> "other", m |-> 0, d |-> 0, y |-> 0,
       s |-> <<Num(13, 2), Ws, Num(12, 2), Ws, Num(2025, 4)>>] }

\* A text: a phrase, and a date after the word "on" when it writes one.
RegexTexts ==
    {[text |-> ph \o (IF x.s = <<>> THEN <<>> ELSE <<Ws, W("on"), Ws>> \o x.s),
      shape |-> x.shape, m |-> x.m, d |-> x.d, y |-> x.y] :
        ph \in RegexPhrases, x \in RegexDates}

\* The pattern-matching extractor on one text, in either year.
InitRegex ==
    /\ users = {}
    /\ occasions = <<>>
    /\ now \in {0, NewYearClock}
    /\ login = [c \in Clients |-> Idle]
    /\ req = NoReq
    /\ resp = NoResp
    /\ WebIdle
    /\ DbIdle
    /\ exIn \in RegexTexts
    /\ exOut = Pending

NextRegex ==
    /\ RegexExtract
    /\ UNCHANGED <<apiVars, webVars, dbVars>>

SpecRegex == InitRegex /\ [][NextRegex]_vars

\* The extraction route beside the create route.
NextExtractApi ==
    /\ \/ \E r \in ExtractRequests, c \in ApiCompletions : ExtractOccasion(r, c)
       \/ \E r \in CreateRequests : CreateOccasion(r) /\ UNCHANGED exVars
    /\ UNCHANGED <<webVars, dbVars>>

SpecExtractApi == InitAuth /\ [][NextExtractApi]_vars

\* The sessions of concurrent requests.
InitSessions ==
    /\ users = {}
    /\ occasions = <<>>
    /\ now = 0
    /\ login = [c \in Clients |-> Idle]
    /\ req = NoReq
    /\ resp = NoResp
    /\ WebIdle
    /\ DbIdle
    /\ ExIdle

NextSessions ==
    /\ \E c \in Clients :
          \/ \E route \in Routes : Receive(c, route)
          \/ ReturnEarly(c)
          \/ OpenSession(c)
          \/ \E raised \in BOOLEAN : TryBody(c, raised)
          \/ ExceptRollback(c)
          \/ FinallyClose(c)
          \/ EndRequest(c)
    /\ UNCHANGED <<apiVars, webVars, exVars>>

SpecSessions == InitSessions /\ [][NextSessions]_vars

(***************************************************************************)
(* Dev login                                                               *)
(***************************************************************************)

\* The user a dev-login answer describes is the stored user with the email
\* asked for, and the token is signed for that user.
LoginAnswersFor(r, email) ==
    /\ r.status = 200
    /\ r.token_type = "bearer"
    /\ r.user.email = email
    /\ r.access_token.wellformed
    /\ r.access_token.sig = jwt_secret_key
    /\ r.access_token.claims.email = StrClaim(email)

\* C2: every dev-login request that carries a well-formed email and a name is
\* answered with a signed token for a user with that email, in every
\* interleaving with other dev-login requests, two requests in flight for
\* the same unregistered email included.
C2_EveryDevLoginReturnsToken ==
    [][\A c \in Clients :
          DevLoginFinish(c) =>
              /\ LoginAnswersFor(resp', login[c].body.email)
              /\ \E u \in users' : u.email = login[c].body.email /\ resp'.user = UserResponse(u)]_vars

\* C3: a dev login with an email that no stored user has (none when the
\* handler inserts) creates exactly one user, with the email and full_name
\* sent and the provider sent or else "dev", and answers 200 with an
\* access_token, token_type "bearer" and that user's email and full_name.
C3_NewEmailLoginCreatesUser ==
    [][\A c \in Clients :
          (DevLoginFinish(c) /\ \A v \in users : v.email # login[c].body.email) =>
              \E u \in users' :
                  /\ u \notin users
                  /\ users' = users \cup {u}
                  /\ Cardinality(users') = Cardinality(users) + 1
                  /\ u.email = login[c].body.email
                  /\ u.full_name = login[c].body.full_name
                  /\ u.provider = IF login[c].body.provider = Absent
                                  THEN "dev" ELSE login[c].body.provider
                  /\ LoginAnswersFor(resp', u.email)
                  /\ resp'.user.full_name = u.full_name
                  /\ resp'.user.id = u.id
                  /\ resp'.access_token.claims.sub = IntClaim(u.id)]_vars

\* C3's case: the only stored user was created by the dev login just
\* answered, with the default provider, while the other client's request
\* for the other email is still in flight.
C3_Witness ==
    /\ resp.for = "login" /\ resp.status = 200
    /\ \E u \in users :
          /\ users = {u}
          /\ u.provider = "dev"
          /\ resp.user = UserResponse(u)
    /\ \E c \in Clients : login[c].pc = "selected" /\ login[c].user_in.email # resp.user.email

\* C20: a dev login whose email a stored user has when the request arrives
\* creates no user and changes no stored field; the token and the response
\* describe the stored user, with its id and full_name, whatever full_name
\* and provider the request sends; and exactly one user has that email
\* afterwards.
C20_ExistingEmailLoginChangesNothing ==
    [][\A c \in Clients :
          (DevLoginFinish(c) /\ login[c].user # NoUser) =>
              /\ users' = users
              /\ \E u \in users :
                    /\ u.email = login[c].body.email
                    /\ LoginAnswersFor(resp', u.email)
                    /\ resp'.user = UserResponse(u)
                    /\ resp'.access_token.claims.sub = IntClaim(u.id)
              /\ Cardinality({u \in users' : u.email = login[c].body.email}) = 1]_vars

\* C20's case: the only stored user has the default provider, and the dev
\* login just answered sent that user's email with another full_name and
\* another provider, and was answered with the stored user.
C20_Witness ==
    /\ resp.for = "login" /\ resp.status = 200
    /\ \E u \in users :
          /\ users = {u}
          /\ u.provider = "dev"
          /\ resp.request.email = u.email
          /\ resp.request.full_name # u.full_name
          /\ resp.request.provider = "google"
          /\ resp.user = UserResponse(u)
          /\ resp.access_token.claims.sub = IntClaim(u.id)

(***************************************************************************)
(* Bearer authentication                                                   *)
(***************************************************************************)

\* C4: for every stored user u, a token made by
\* create_access_token({"sub": u.id, "email": u.email}) and presented before
\* it expires is accepted: GET /me answers 200 with exactly u.
C4_TokenRoundTrip ==
    \A u \in users, t0 \in ClockValues :
        ( /\ req.endpoint = "me"
          /\ req.creds = Bearer(TokenFor(u, t0))
          /\ t0 <= resp.at
          /\ resp.at < t0 + ACCESS_TOKEN_EXPIRE_HOURS )
        => /\ resp.status = 200
           /\ resp.user = UserResponse(u)

\* The request just handled, whichever endpoint it went to.
Handled == ReadMe(req') \/ CreateOccasion(req') \/ ListOccasions(req')

\* C5: a request without bearer credentials to a protected endpoint (GET /me,
\* POST /occasions/, GET /occasions/) is answered 401 "Not authenticated" and
\* leaves the users and occasions tables as they were.
C5_NoCredentialsIs401 ==
    [][(Handled /\ ~req'.creds.present) =>
          /\ resp'.status = 401
          /\ resp'.detail = "Not authenticated"
          /\ users' = users
          /\ occasions' = occasions]_vars

\* C5's case: POST /occasions/ with a valid body and no credentials was
\* answered 401 while the table already held a row.
C5_Witness ==
    /\ req.endpoint = "create"
    /\ ~req.creds.present
    /\ OccasionExtractedValid(req.payload)
    /\ resp.for = "create" /\ resp.status = 401
    /\ Len(occasions) >= 1

\* The token of the request: does it fail jose's checks at time t?
TokenRejected(tok, t) ==
    \/ ~tok.wellformed
    \/ tok.sig # jwt_secret_key
    \/ tok.alg # ALGORITHM
    \/ tok.claims.exp.t = "int" /\ tok.claims.exp.n < t

\* The token's sub or email claim is missing or unusable.
ClaimsUnusable(tok) ==
    \/ ~(tok.claims.sub.t = "str" /\ tok.claims.sub.s = "digits")
    \/ ~(tok.claims.email.t = "str" /\ IsEmailStr(tok.claims.email.s))

\* C6: get_current_user has two outcomes for any presented credential: a
\* user of the users table, or 401. A token that is malformed, signed with
\* another key, expired, or that lacks or carries an unusable sub/email
\* claim yields 401 "Invalid token"; a valid token whose sub matches no
\* stored user yields 401 "User not found".
C6_UserOr401 ==
    (req.endpoint = "me" /\ req.creds.present) =>
        LET tok == req.creds.credentials
        IN  /\ \/ resp.status = 200 /\ \E u \in users : resp.user = UserResponse(u)
               \/ resp.status = 401
            /\ (TokenRejected(tok, resp.at) \/ ClaimsUnusable(tok)) =>
                   (resp.status = 401 /\ resp.detail = "Invalid token")
            /\ ( /\ ~TokenRejected(tok, resp.at)
                 /\ ~ClaimsUnusable(tok)
                 /\ \A u \in users : u.id # tok.claims.sub.n ) =>
                   (resp.status = 401 /\ resp.detail = "User not found")

(***************************************************************************)
(* Occasions                                                               *)
(***************************************************************************)

\* The id in the sub claim of the request's token.
TokenUserId(r) == r.creds.credentials.claims.sub.n

\* req' was accepted by get_current_user and its body validates.
AuthenticatedCreate ==
    /\ CreateOccasion(req')
    /\ get_current_user(req'.creds, users, now).ok
    /\ OccasionExtractedValid(req'.payload)

OwnedRows(uid) == {i \in 1..Len(occasions) : occasions[i].owner_id = uid}

\* Sequence items holds exactly the table rows with index in keep, each once.
ExactlyRows(items, keep) ==
    /\ \A i \in keep : Cardinality({j \in 1..Len(items) : items[j] = occasions[i]}) = 1
    /\ \A j \in 1..Len(items) : \E i \in keep : items[j] = occasions[i]

C9_PersonFilterIsSubstring ==
    ( /\ req.endpoint = "list"
      /\ req.creds.present
      /\ get_current_user(req.creds, users, resp.at).ok
      /\ req.filters.person.given
      /\ req.filters = [NoFilters EXCEPT !.person = req.filters.person] ) =>
        /\ resp.status = 200
        /\ ExactlyRows(resp.items,
                       {i \in OwnedRows(TokenUserId(req)) :
                            ContainsIgnoreCase(occasions[i].person, req.filters.person.s)})

\* Occasion o passes the filters f on the day of clock t, an absent or empty
\* filter letting every occasion pass.
PassesFilters(o, f, t) ==
    /\ (f.person.given /\ f.person.s # <<>>) => ContainsIgnoreCase(o.person, f.person.s)
    /\ f.occasion_type \notin {Absent, ""} => o.occasion_type = f.occasion_type
    /\ f.status \notin {Absent, ""} => o.status = f.status
    /\ f.upcoming_only => DateLeq(Today(t), o.occasion_date)

\* C18: GET /occasions/ applies every supplied filter together on top of the
\* owner restriction: the answer is exactly the authenticated user's
\* occasions whose person contains the person filter, whose occasion_type
\* and status equal theirs and, with upcoming_only, whose date is today or
\* later; an absent or empty filter restricts nothing.
C18_FiltersAreConjunctive ==
    ( /\ req.endpoint = "list"
      /\ req.creds.present
      /\ get_current_user(req.creds, users, resp.at).ok
      /\ req.filters.status \in OccasionStatuses \cup {Absent, ""} ) =>
        /\ resp.status = 200
        /\ ExactlyRows(resp.items,
                       {i \in OwnedRows(TokenUserId(req)) :
                            PassesFilters(occasions[i], req.filters, resp.at)})

(***************************************************************************)
(* The server-rendered app                                                 *)
(***************************************************************************)

\* The last row of the table is the occasion extracted from text: the
\* extracted person and occasion_type, the extracted date as a date, and
\* the text as raw_input.
PersistedAs(tbl, e, text) ==
    /\ tbl # <<>>
    /\ tbl[Len(tbl)].person = e.person
    /\ tbl[Len(tbl)].occasion_type = e.occasion_type
    /\ StrftimeIso(tbl[Len(tbl)].occasion_date) = StrftimeIso(Strptime(e.date, IsoFormat))
    /\ Strptime(e.date, IsoFormat) # NoDate
    /\ tbl[Len(tbl)].raw_input = text

\* Every stored occasion stays stored, and a GET /occasions answers them all.
StaysListed ==
    /\ Len(webOccasions') >= Len(webOccasions)
    /\ SubSeq(webOccasions', 1, Len(webOccasions)) = webOccasions
    /\ GetOccasions =>
           \A i \in 1..Len(webOccasions) :
               \E j \in 1..Len(webResp'.cards) : webResp'.cards[j] = webOccasions[i]

C19_ErrorLeavesTableUnchanged ==
    [][(webResp'.for = "add_occasion" /\ ~webResp'.ok) => webOccasions' = webOccasions]_vars

(***************************************************************************)
(* The extractor                                                           *)
(***************************************************************************)

\* The date value v of a reply cannot be normalised in year y.
DateNotNormalisable(v, y) == v.t # "str" \/ ~normalise_date(v.ds, y).ok

\* The reply the call received, with the whitespace around it dropped.
ReplyOf(c) == StripText(c.content)

\* The cases for which the extractor is to return None.
ReturnsNoneCase(c, y) ==
    \/ c.call # "returns"
    \/ ~c.has_content
    \/ ReplyOf(c).k = "word" /\ Lower(ReplyOf(c).word) = <<"n", "u", "l", "l">>
    \/ ReplyOf(c).k = "word" /\ ReplyOf(c).word \notin {<<"n", "u", "l", "l">>, <<"t", "r", "u", "e">>}
    \/ ReplyOf(c).k = "word" /\ ReplyOf(c).word = <<"t", "r", "u", "e">>
    \/ ReplyOf(c).k = "json" /\ ReplyOf(c).doc # "object"
    \/ \E key \in required : ReplyOf(c).obj[key].t = "missing"
    \/ ReplyOf(c).obj.confidence.t \in {"null", "list"}
    \/ ReplyOf(c).obj.confidence.t = "str" /\ ~ReplyOf(c).obj.confidence.numeric
    \/ DateNotNormalisable(ReplyOf(c).obj.date, y)

\* C10: extract_occasion_data never raises, and it returns None when the
\* reply is the word null (any letter case, whitespace around it ignored),
\* when the reply is not valid JSON, when it is JSON but no object or lacks
\* person, occasion_type, date or confidence, when the confidence cannot be
\* made a number, when the date cannot be normalised, and when the
\* completion call itself fails.
C10_ExtractNeverRaises ==
    exOut # Pending =>
        /\ exOut.kind = "returned"
        /\ ReturnsNoneCase(exIn, Today(now).y) => exOut.val.none

\* C10's cases, each met by a finished call: a failed completion, the word
\* NULL between whitespace, a text that is no JSON, a JSON list, an object
\* without confidence, a confidence that spells no number, and a date that
\* cannot be normalised.
C10_Witness ==
    /\ exOut # Pending
    /\ exOut.val.none
    /\ exIn.call = "returns" /\ exIn.has_content
    /\ exIn.content.k = "json" /\ exIn.content.doc = "object"
    /\ required \subseteq Keys(exIn.content.obj)
    /\ exIn.content.obj.confidence.t = "str"
    /\ ~exIn.content.obj.confidence.numeric

\* The completion produced a reply that is a JSON object with person,
\* occasion_type, an ISO date and a confidence that is or spells a number.
CompleteReply(c) ==
    /\ c.call # "raises"
    /\ c.has_content
    /\ c.content.k = "json" /\ c.content.doc = "object"
    /\ c.content.obj.person.t = "str"
    /\ c.content.obj.occasion_type.t = "str"
    /\ c.content.obj.date.t = "str" /\ IsIsoDate(c.content.obj.date.ds)
    /\ FloatOk(c.content.obj.confidence)

\* C11: when the model reply is a JSON object carrying person,
\* occasion_type, an ISO YYYY-MM-DD date and a confidence,
\* extract_occasion_data returns (data, confidence): data's person,
\* occasion_type and date are the reply's, unchanged, confidence is the
\* reply's confidence as a number, and data has no confidence key.
C11_CompleteReplyIsReturned ==
    (exOut # Pending /\ CompleteReply(exIn)) =>
        /\ exOut.kind = "returned"
        /\ ~exOut.val.none
        /\ exOut.val.data.person = exIn.content.obj.person
        /\ exOut.val.data.occasion_type = exIn.content.obj.occasion_type
        /\ exOut.val.data.date = exIn.content.obj.date
        /\ exOut.val.confidence = exIn.content.obj.confidence.n
        /\ "confidence" \notin Keys(exOut.val.data)

\* C12: for every input string, _normalise_date returns either None or a
\* string in ISO form YYYY-MM-DD (four-digit year, two-digit zero-padded
\* month and day) that denotes a real calendar date; it never returns its
\* input in a non-padded or non-ISO form.
C12_NormalisedIsIso ==
    exOut.kind = "normalised" => (~exOut.val.ok \/ IsIsoDate(exOut.val.s))

(***************************************************************************)
(* The extraction route                                                    *)
(***************************************************************************)

\* The step is a POST /occasions/extract whose body validated.
ExtractHandled == req'.endpoint = "extract" /\ OccasionCreateValid(req'.payload)

\* The extract answer carries the record the extractor returned.
AnswersExtracted(answer, result, raw_input) ==
    /\ answer.status = 200
    /\ answer.body.person = result.data.person.s
    /\ answer.body.occasion_type = result.data.occasion_type.s
    /\ StrftimeIso(answer.body.occasion_date) = result.data.date.ds
    /\ answer.body.confidence_score = result.confidence
    /\ answer.body.raw_input = raw_input

InProgress(c, n) == handler[c].n = n /\ handler[c].pc \in {"try", "except", "finally"}

\* C14: every database session opened for a request is closed by the time
\* the request ends, on the success path and when the handler raises:
\* get_db closes the session it yielded, and each handler of the
\* server-rendered app closes the session it opened (rolling back first when
\* saving an occasion fails). No session opened for one request is used by
\* another.
C14_SessionsClosed ==
    \A i \in 1..Len(sessions) :
        /\ sessions[i].state = "open" =>
               (InProgress(sessions[i].by[1], sessions[i].by[2])
                    /\ handler[sessions[i].by[1]].db = i)
        /\ sessions[i].used \subseteq {sessions[i].by}
        /\ ( /\ sessions[i].state = "closed"
             /\ sessions[i].route = "add_occasion"
             /\ sessions[i].raised ) => sessions[i].rolled_back

\* C14's case: a request that raised while saving has ended with its session
\* rolled back and closed, while the other client's request through get_db
\* has raised and still holds the open session it used.
C14_Witness ==
    /\ \E i \in 1..Len(sessions) :
          /\ sessions[i].route = "add_occasion" /\ sessions[i].raised
          /\ sessions[i].state = "closed" /\ sessions[i].rolled_back
          /\ handler[sessions[i].by[1]].pc = "idle"
    /\ \E i \in 1..Len(sessions) :
          /\ sessions[i].route = "api" /\ sessions[i].raised
          /\ sessions[i].state = "open" /\ sessions[i].used # {}

(***************************************************************************)
(* Claims: the pattern-matching extractor                                  *)
(***************************************************************************)

\* The extractor has answered a text that names a person and an occasion.
RegexAnswered == exOut # Pending /\ PersonMatch(exIn.text) # 0

\* The shapes of date the extractor lists.
ListedShapes == {"mdy", "md", "iso", "name"}

\* The date a text of a listed shape speaks of, in the current year when it
\* gives none.
DateMeant(x, current_year) ==
    [y |-> IF x.y = 0 THEN current_year ELSE x.y, m |-> x.m, d |-> x.d]

\* C15: when the text holds a person and occasion phrase and a date of one
\* of the listed shapes (MM/DD/YYYY, MM/DD, YYYY-MM-DD, month name with day
\* and optional year), the returned date is that calendar date as
\* YYYY-MM-DD, in the current year when the text gives no year.
C15_ListedDateIsReturned ==
    (RegexAnswered /\ exIn.shape \in ListedShapes) =>
        /\ exOut.kind = "returned"
        /\ ~exOut.val.none
        /\ exOut.val.data.date = StrftimeIso(DateMeant(exIn, Today(now).y))

\* C16: the extractor returns None exactly when no word is followed, with or
\* without 's, by an occasion word; otherwise it returns without raising a
\* record with the capitalised person, the lower-case occasion type, no
\* relationship, confidence 0.8 and, where the text has no date, the date 30
\* days after today.
C16_RegexReturnsRecord ==
    exOut # Pending =>
        /\ exOut.kind = "returned"
        /\ exOut.val.none <=> PersonMatch(exIn.text) = 0
        /\ ~exOut.val.none =>
              /\ exOut.val.data.person = PersonOf(exIn.text, PersonMatch(exIn.text))
              /\ exOut.val.data.occasion_type \in OccasionWords
              /\ exOut.val.data.relationship = None
              /\ exOut.val.confidence = 80
              /\ exIn.shape = "none" =>
                    exOut.val.data.date = StrftimeIso(AddDays(Today(now), DefaultDays))

(***************************************************************************)
(* Claims: _normalise_date on numeric input                                *)
(***************************************************************************)

IsDelimiter(x) == x.k = "sep" /\ x.c \in {"/", ".", "-"}
IsShortNumber(x) == x.k = "num" /\ x.w \in {1, 2}

\* Two numbers of one or two digits with a delimiter between them.
IsYearless(s) ==
    /\ Len(s) = 3
    /\ IsShortNumber(s[1]) /\ IsDelimiter(s[2]) /\ IsShortNumber(s[3])

\* Three numbers, the four-digit year last.
IsYearLast(s) ==
    /\ Len(s) = 5
    /\ IsShortNumber(s[1]) /\ IsDelimiter(s[2]) /\ IsShortNumber(s[3])
    /\ IsDelimiter(s[4]) /\ s[5].k = "num" /\ s[5].w = 4

\* The ISO string of a date when it is a real one, None otherwise.
IsoOrNone(date) == IF ValidDate(date) THEN Normalised(StrftimeIso(date)) ELSE NotNormalised

DayFirst(s) == [y |-> s[5].v, m |-> s[3].v, d |-> s[1].v]
MonthFirst(s) == [y |-> s[5].v, m |-> s[1].v, d |-> s[3].v]

====
